---- MODULE Spec2Model ----
(***************************************************************************)
(* Model of the Advisor MCP tool dispatcher (src/src/index.ts): one agent  *)
(* session (MyMCP.init), the tools it registers, and the tool handlers,    *)
(* each split at its single await of fetch().                              *)
(*                                                                         *)
(* Strings are sequences of tokens.  Caller data is one token per          *)
(* character; a literal of the source ("Backend ", "/universe", a query    *)
(* key) and a URL origin ("https://a") are one token each.                 *)
(* JavaScript values carry a type tag: [t |-> "string", v |-> <<...>>].    *)
(***************************************************************************)
EXTENDS Integers, Sequences, FiniteSets, TLC

VARIABLES env, phase, initEnv, apiBase, tools, calls

vars == <<env, phase, initEnv, apiBase, tools, calls>>

\* ---------------------------------------------------------------- bounds

\* Invocation slots of the concurrent specification.
MaxCalls == 3
\* Longest ticker list the callers of the ingest specification send.
MaxList == 4

\* ------------------------------------------------------ program constants

\* z.array(z.string()).min(1).max(50) and .slice(0, 50)
MinTickers == 1
MaxTickers == 50
\* body.slice(0,200)
ExcerptLen == 200
\* z.number().int().min(1).max(500).default(100)
UniverseLimitMin == 1
UniverseLimitMax == 500
UniverseLimitDefault == 100
\* z.number().int().min(1).max(100).default(10)
SearchLimitMin == 1
SearchLimitMax == 100
SearchLimitDefault == 10
\* z.number().min(1).max(5).default(3)
RiskMin == 1
RiskMax == 5
RiskDefault == 3

\* ------------------------------------------------------ JavaScript values

Undefined == [t |-> "undefined", v |-> <<>>]
Null == [t |-> "null", v |-> <<>>]
Str(s) == [t |-> "string", v |-> s]
Num(n) == [t |-> "number", v |-> n]
Arr(a) == [t |-> "array", v |-> a]
\* an object is the sequence of its <<key, value>> entries, in insertion order
Obj(o) == [t |-> "object", v |-> o]

Min(a, b) == IF a < b THEN a ELSE b

\* ---------------------------------------------------------------- strings

WhiteSpace == {" ", "\t"}

RECURSIVE TrimStart(_)
TrimStart(s) ==
  IF s # <<>> /\ Head(s) \in WhiteSpace THEN TrimStart(Tail(s)) ELSE s

RECURSIVE TrimEnd(_)
TrimEnd(s) ==
  IF s # <<>> /\ s[Len(s)] \in WhiteSpace
    THEN TrimEnd(SubSeq(s, 1, Len(s) - 1)) ELSE s

\* String.prototype.trim
Trim(s) == TrimEnd(TrimStart(s))

UpperOf(c) ==
  CASE c = "a" -> "A" [] c = "b" -> "B" [] c = "f" -> "F" [] c = "l" -> "L"
    [] c = "m" -> "M" [] c = "p" -> "P" [] c = "s" -> "S" [] c = "t" -> "T"
    [] c = "x" -> "X" [] c = "e" -> "E" [] c = "c" -> "C" [] c = "h" -> "H"
    [] OTHER -> c

\* String.prototype.toUpperCase
ToUpperCase(s) == [i \in 1..Len(s) |-> UpperOf(s[i])]

\* String.prototype.slice(0, n), n >= 0
Slice0(s, n) == SubSeq(s, 1, Min(n, Len(s)))

Digit(d) == <<"0", "1", "2", "3", "4", "5", "6", "7", "8", "9">>[d + 1]

RECURSIVE NatToString(_)
NatToString(n) ==
  IF n < 10 THEN <<Digit(n)>> ELSE NatToString(n \div 10) \o <<Digit(n % 10)>>

\* String(n) and `${n}` for the integers of the model
NumberToString(n) == IF n < 0 THEN <<"-">> \o NatToString(-n) ELSE NatToString(n)

Unreserved ==
  {"a", "b", "c", "e", "f", "h", "l", "m", "p", "s", "t", "x",
    "A", "B", "C", "E", "F", "H", "L", "M", "P", "S", "T", "X",
   "0", "1", "2", "3", "4", "5", "6", "7", "8", "9", "-", "_", "."}

PercentOf(c) ==
  CASE c = " " -> <<"%", "2", "0">>
    [] c = "\t" -> <<"%", "0", "9">>
    [] c = "&" -> <<"%", "2", "6">>
    [] c = "=" -> <<"%", "3", "D">>
    [] c = "/" -> <<"%", "2", "F">>
    [] c = "?" -> <<"%", "3", "F">>
    [] c = "+" -> <<"%", "2", "B">>
    [] c = "%" -> <<"%", "2", "5">>
    [] OTHER -> <<"%", "3", "F">>

RECURSIVE encodeURIComponent(_)
encodeURIComponent(s) ==
  IF s = <<>> THEN <<>>
  ELSE (IF Head(s) \in Unreserved THEN <<Head(s)>> ELSE PercentOf(Head(s)))
         \o encodeURIComponent(Tail(s))

\* application/x-www-form-urlencoded serialisation of URLSearchParams
RECURSIVE FormEncode(_)
FormEncode(s) ==
  IF s = <<>> THEN <<>>
  ELSE (IF Head(s) \in Unreserved THEN <<Head(s)>>
        ELSE IF Head(s) = " " THEN <<"+">>
        ELSE PercentOf(Head(s)))
         \o FormEncode(Tail(s))

RECURSIVE SerializeParams(_)
\* URLSearchParams.prototype.toString over the list of <<name, value>> pairs
SerializeParams(ps) ==
  IF ps = <<>> THEN <<>>
  ELSE <<Head(ps)[1], "=">> \o FormEncode(Head(ps)[2])
         \o (IF Len(ps) > 1 THEN <<"&">> ELSE <<>>)
         \o SerializeParams(Tail(ps))

RECURSIVE DropNamed(_, _)
DropNamed(ps, name) ==
  IF ps = <<>> THEN <<>>
  ELSE (IF Head(ps)[1] = name THEN <<>> ELSE <<Head(ps)>>) \o DropNamed(Tail(ps), name)

\* URLSearchParams.prototype.set: the first entry of that name takes the value
\* and the others of that name go; with no such entry, append
ParamsSet(ps, name, value) ==
  IF \E i \in 1..Len(ps) : ps[i][1] = name
    THEN LET f == CHOOSE i \in 1..Len(ps) :
                    ps[i][1] = name /\ \A j \in 1..(i - 1) : ps[j][1] # name
         IN SubSeq(ps, 1, f - 1) \o <<<<name, value>>>>
              \o DropNamed(SubSeq(ps, f + 1, Len(ps)), name)
    ELSE Append(ps, <<name, value>>)

\* ------------------------------------------------------------------- JSON

Spaces(n) == [i \in 1..n |-> " "]

RECURSIVE Serialize(_, _, _)
RECURSIVE SerializeItems(_, _, _, _)

\* the items of an array ("elem") or the properties of an object ("prop"),
\* joined by "," and, with a gap, a newline and the indentation
SerializeItems(kind, xs, gap, indent) ==
  IF xs = <<>> THEN <<>>
  ELSE LET x == Head(xs)
           one == IF kind = "elem"
                    THEN (IF x.t = "undefined" THEN <<"null">>
                          ELSE Serialize(x, gap, indent))
                    ELSE <<"\"", x[1], "\"", ":">>
                           \o (IF gap > 0 THEN <<" ">> ELSE <<>>)
                           \o Serialize(x[2], gap, indent)
       IN (IF gap > 0 THEN <<"\n">> \o Spaces(indent) ELSE <<>>)
            \o one
            \o (IF Len(xs) > 1 THEN <<",">> ELSE <<>>)
            \o SerializeItems(kind, Tail(xs), gap, indent)

\* the properties JSON.stringify keeps: those whose value is not undefined
RECURSIVE Defined(_)
Defined(o) ==
  IF o = <<>> THEN <<>>
  ELSE (IF Head(o)[2].t = "undefined" THEN <<>> ELSE <<Head(o)>>) \o Defined(Tail(o))

Serialize(x, gap, indent) ==
  CASE x.t = "null" -> <<"null">>
    [] x.t = "number" -> NumberToString(x.v)
    [] x.t = "string" -> <<"\"">> \o x.v \o <<"\"">>
    [] x.t = "array" ->
         IF x.v = <<>> THEN <<"[", "]">>
         ELSE <<"[">> \o SerializeItems("elem", x.v, gap, indent + gap)
                \o (IF gap > 0 THEN <<"\n">> \o Spaces(indent) ELSE <<>>) \o <<"]">>
    [] x.t = "object" ->
         IF Defined(x.v) = <<>> THEN <<"{", "}">>
         ELSE <<"{">> \o SerializeItems("prop", Defined(x.v), gap, indent + gap)
                \o (IF gap > 0 THEN <<"\n">> \o Spaces(indent) ELSE <<>>) \o <<"}">>

\* JSON.stringify(x, null, gap): a string, or undefined for undefined
JSONStringify(x, gap) ==
  IF x.t = "undefined" THEN Undefined ELSE Str(Serialize(x, gap, 0))

\* x.key: the property, or undefined; a TypeError on null and undefined is the
\* caller's to model (see Throws in get_asset_details)
GetProp(x, key) ==
  IF x.t = "object" /\ \E i \in 1..Len(x.v) : x.v[i][1] = key
    THEN x.v[CHOOSE i \in 1..Len(x.v) : x.v[i][1] = key][2]
    ELSE Undefined

\* x?.key
OptProp(x, key) == IF x.t \in {"null", "undefined"} THEN Undefined ELSE GetProp(x, key)

\* a ?? b
Coalesce(a, b) == IF a.t \in {"null", "undefined"} THEN b ELSE a

ArrayIsArray(x) == x.t = "array"

\* -------------------------------------------------- backend responses

\* what res.json() finds in a body that is not JSON
NotJson == [t |-> "invalid", v |-> <<>>]

\* a body that is a JSON document: its text and its parse
JsonBody(x) == [readable |-> TRUE, raw |-> Serialize(x, 0, 0), json |-> x]
\* a body of n characters that is not JSON (n = 0: the empty body)
TextBody(n) == [readable |-> TRUE, raw |-> [i \in 1..n |-> Digit(i % 10)], json |-> NotJson]
\* a body whose stream fails while it is read
BrokenBody == [readable |-> FALSE, raw |-> <<>>, json |-> NotJson]

\* fetch() rejected: no response at all
NetworkFailure == [kind |-> "rejected", status |-> 0, body |-> BrokenBody]
HttpResponse(status, body) == [kind |-> "response", status |-> status, body |-> body]

\* the URL origins of the model, one token each
Origins == {"https://a", "https://b"}
\* a URL fetch() accepts: it starts with an origin
IsAbsoluteUrl(url) == url # <<>> /\ url[1] \in Origins

\* Response.ok
ResOk(res) == res.status >= 200 /\ res.status <= 299

\* ---------------------------------------------------------- the session

SixTools ==
  {"list_universe", "explain_universe", "get_asset_details", "search_assets",
   "ingest_from_finnhub", "run_fundamentals"}

RECURSIVE StripTrailingSlashes(_)
\* .replace(/\/+$/, "")
StripTrailingSlashes(s) ==
  IF s # <<>> /\ s[Len(s)] = "/"
    THEN StripTrailingSlashes(SubSeq(s, 1, Len(s) - 1)) ELSE s

\* mutant: the trailing slashes stay
NormalizeBase_keepslashes(e) == IF e.t = "string" /\ e.v # <<>> THEN e.v ELSE <<>>

\* (this.env.API_BASE || "").replace(/\/+$/, "")
NormalizeBase(e) ==
  StripTrailingSlashes(IF e.t = "string" /\ e.v # <<>> THEN e.v ELSE <<>>)

ConfigErrorText ==
  Str(<<"Missing API_BASE env var. Set it in wrangler.jsonc under 'vars'.">>)

\* the tools init() registers for a normalized base address
RegisteredTools(base) == IF base = <<>> THEN {"config_error"} ELSE SixTools

NoRequest == [method |-> "", url |-> <<>>, noStore |-> FALSE, body |-> Undefined]
NoReply == [content |-> <<>>]
TextReply(text) == [content |-> <<[type |-> "text", text |-> text]>>]

\* the arguments a handler of the schema {} is given
NoArgs == [t |-> "object", v |-> <<>>]

IdleCall ==
  [pc |-> "idle", tool |-> "", raw |-> <<>>, args |-> <<>>, base |-> <<>>, request |-> NoRequest,
   nreq |-> 0, response |-> NetworkFailure, jsonParsed |-> FALSE, reply |-> NoReply]

Slots == 1..MaxCalls

\* the configured values a session may start with
EnvPool ==
  {Undefined, Str(<<>>), Str(<<"/", "/">>), Str(<<" ">>), Str(<<"https://a", "/">>)}

\* the values the host may put in its place later
EnvChangePool == {Str(<<>>), Str(<<"https://b">>)}

InitFrom(pool) ==
  /\ env \in pool
  /\ phase = "new"
  /\ initEnv = Undefined
  /\ apiBase = <<>>
  /\ tools = {}
  /\ calls = [i \in Slots |-> IdleCall]

Init == InitFrom(EnvPool)

\* MyMCP.init()
MCPInit ==
  /\ phase = "new"
  /\ phase' = "ready"
  /\ initEnv' = env
  /\ apiBase' = NormalizeBase(env)
  /\ tools' = RegisteredTools(NormalizeBase(env))
  /\ UNCHANGED <<env, calls>>

\* the host replaces the configured value under a running session
EnvChange(e) ==
  /\ phase = "ready"
  /\ e # env
  /\ env' = e
  /\ UNCHANGED <<phase, initEnv, apiBase, tools, calls>>

\* ------------------------------------------------- handler plumbing

\* the base address a handler of that tool works with: explain_universe uses
\* the constant init() captured, the other five normalize this.env.API_BASE anew
HandlerBase(tool) ==
  IF tool = "explain_universe" THEN apiBase ELSE NormalizeBase(env)

\* the transport runs a handler for a registered tool and validated arguments
CanCall(i, tool) ==
  /\ phase = "ready"
  /\ tool \in tools
  /\ calls[i].pc = "idle"

\* await fetch(url, init): the request leaves and the handler suspends
\* (nreq counts the fetch() calls of the invocation)
Fetch(i, tool, raw, args, base, req) ==
  /\ calls' = [calls EXCEPT ![i] =
       [pc |-> "awaiting", tool |-> tool, raw |-> raw, args |-> args, base |-> base,
        request |-> req, nreq |-> calls[i].nreq + 1, response |-> NetworkFailure,
        jsonParsed |-> FALSE, reply |-> NoReply]]
  /\ UNCHANGED <<env, phase, initEnv, apiBase, tools>>

\* return { content: [{ type: "text", text }] } before any fetch
ReturnEarly(i, tool, raw, args, base, text) ==
  /\ calls' = [calls EXCEPT ![i] =
       [pc |-> "returned", tool |-> tool, raw |-> raw, args |-> args, base |-> base,
        request |-> NoRequest, nreq |-> calls[i].nreq, response |-> NetworkFailure,
        jsonParsed |-> FALSE, reply |-> TextReply(text)]]
  /\ UNCHANGED <<env, phase, initEnv, apiBase, tools>>

\* how a handler ends after its fetch settled
Returned(text, parsed) ==
  [pc |-> "returned", reply |-> TextReply(text), jsonParsed |-> parsed]
Threw(parsed) == [pc |-> "threw", reply |-> NoReply, jsonParsed |-> parsed]

Get(url) == [method |-> "GET", url |-> url, noStore |-> TRUE, body |-> Undefined]

\* mutant: the status code is left out of the text
FailedText_nostatus(path, status) == <<"Backend ", path, " failed">>

\* `Backend ${path} failed: ${res.status}`
FailedText(path, status) ==
  <<"Backend ", path, " failed: ">> \o NumberToString(status)

\* await res.text().catch(() => "")
ReadText(body) == IF body.readable THEN body.raw ELSE <<>>

\* mutant: the whole body goes into the text
ExcerptText_whole(path, status, body) ==
  <<"Backend ", path, " ">> \o NumberToString(status) \o <<": ">> \o body

\* `Backend ${path} ${res.status}: ${body.slice(0,200)}`
ExcerptText(path, status, body) ==
  <<"Backend ", path, " ">> \o NumberToString(status) \o <<": ">>
    \o Slice0(body, ExcerptLen)

\* --------------------------------------------------------- config_error

\* schema {}: the handler takes no arguments and reads none
config_error(i, pool) ==
  /\ CanCall(i, "config_error")
  /\ \E raw \in pool : ReturnEarly(i, "config_error", raw, NoArgs, <<>>, ConfigErrorText)

\* -------------------------------------------------------- list_universe

\* { sector: z.string().optional(), limit: z.number().int().min(1).max(500).default(100) }
list_universe_schema(raw) ==
  [ok |-> /\ raw.sector.t \in {"undefined", "string"}
          /\ \/ raw.limit.t = "undefined"
             \/ /\ raw.limit.t = "number"
                /\ raw.limit.v >= UniverseLimitMin /\ raw.limit.v <= UniverseLimitMax,
   args |-> [sector |-> raw.sector,
             limit |-> IF raw.limit.t = "number" THEN raw.limit.v
                       ELSE UniverseLimitDefault]]

\* mutant: the sector is tested trimmed and sent as given
list_universe_params_untrimmed(args) ==
  LET qs == <<<<"limit", NumberToString(args.limit)>>>>
  IN IF args.sector.t = "string" /\ args.sector.v # <<>> /\ Trim(args.sector.v) # <<>>
       THEN ParamsSet(qs, "sector", args.sector.v)
       ELSE qs

\* const qs = new URLSearchParams({ limit: String(limit) });
\* if (sector && sector.trim()) qs.set("sector", sector.trim());
list_universe_params(args) ==
  LET qs == <<<<"limit", NumberToString(args.limit)>>>>
  IN IF args.sector.t = "string" /\ args.sector.v # <<>> /\ Trim(args.sector.v) # <<>>
       THEN ParamsSet(qs, "sector", Trim(args.sector.v))
       ELSE qs

list_universe_request(args, base) ==
  Get(base \o <<"/universe", "?">> \o SerializeParams(list_universe_params(args)))

\* Array.isArray(data?.items) ? data.items : []
ItemsOf(data) ==
  IF ArrayIsArray(OptProp(data, "items")) THEN GetProp(data, "items") ELSE Arr(<<>>)

list_universe_shape(args, res) ==
  IF res.kind = "rejected" THEN Threw(FALSE)
  ELSE IF ~ResOk(res) THEN Returned(Str(FailedText("/universe", res.status)), FALSE)
  ELSE IF res.body.json.t = "invalid" THEN Threw(TRUE)
  ELSE Returned(JSONStringify(ItemsOf(res.body.json), 2), TRUE)

list_universe(i, pool) ==
  /\ CanCall(i, "list_universe")
  /\ \E raw \in pool :
       /\ list_universe_schema(raw).ok
       /\ LET args == list_universe_schema(raw).args
              base == HandlerBase("list_universe")
          IN Fetch(i, "list_universe", raw, args, base, list_universe_request(args, base))

\* ----------------------------------------------------- explain_universe

\* { risk: z.number().min(1).max(5).default(3), universe: z.array(z.string()).default([]) }
explain_universe_schema(raw) ==
  [ok |-> /\ \/ raw.risk.t = "undefined"
             \/ /\ raw.risk.t = "number"
                /\ raw.risk.v >= RiskMin /\ raw.risk.v <= RiskMax
          /\ \/ raw.universe.t = "undefined"
             \/ /\ raw.universe.t = "array"
                /\ \A k \in 1..Len(raw.universe.v) : raw.universe.v[k].t = "string",
   args |-> [risk |-> IF raw.risk.t = "number" THEN raw.risk.v ELSE RiskDefault,
             universe |-> IF raw.universe.t = "array" THEN raw.universe
                          ELSE Arr(<<>>)]]

explain_universe_request(args, base) ==
  [method |-> "POST", url |-> base \o <<"/explain">>, noStore |-> FALSE,
   body |-> JSONStringify(Obj(<<<<"risk", Num(args.risk)>>,
                                <<"universe", args.universe>>>>), 0)]

explain_universe_shape(args, res) ==
  IF res.kind = "rejected" THEN Threw(FALSE)
  ELSE IF ~ResOk(res) THEN Returned(Str(FailedText("/explain", res.status)), FALSE)
  ELSE IF res.body.json.t = "invalid" THEN Threw(TRUE)
  ELSE Returned(Coalesce(OptProp(res.body.json, "rationale"),
                         Str(<<"No rationale.">>)), TRUE)

explain_universe(i, pool) ==
  /\ CanCall(i, "explain_universe")
  /\ \E raw \in pool :
       /\ explain_universe_schema(raw).ok
       /\ LET args == explain_universe_schema(raw).args
              base == HandlerBase("explain_universe")
          IN Fetch(i, "explain_universe", raw, args, base, explain_universe_request(args, base))

\* ---------------------------------------------------- get_asset_details

\* { ticker: z.string().min(1) }
ticker_schema(raw) ==
  [ok |-> raw.ticker.t = "string" /\ Len(raw.ticker.v) >= 1,
   args |-> [ticker |-> raw.ticker.v]]

get_asset_details_request(args, base) ==
  Get(base \o <<"/asset", "/">> \o encodeURIComponent(args.ticker))

\* data.item throws a TypeError when data is null
get_asset_details_shape(args, res) ==
  IF res.kind = "rejected" THEN Threw(FALSE)
  ELSE IF ~ResOk(res) THEN Returned(Str(FailedText("/asset", res.status)), FALSE)
  ELSE IF res.body.json.t = "invalid" THEN Threw(TRUE)
  ELSE IF res.body.json.t = "null" THEN Threw(TRUE)
  ELSE Returned(JSONStringify(GetProp(res.body.json, "item"), 2), TRUE)

get_asset_details(i, pool) ==
  /\ CanCall(i, "get_asset_details")
  /\ \E raw \in pool :
       /\ ticker_schema(raw).ok
       /\ LET args == ticker_schema(raw).args
              base == HandlerBase("get_asset_details")
          IN Fetch(i, "get_asset_details", raw, args, base, get_asset_details_request(args, base))

\* -------------------------------------------------------- search_assets

\* { q: z.string().min(1), limit: z.number().int().min(1).max(100).default(10) }
search_assets_schema(raw) ==
  [ok |-> /\ raw.q.t = "string" /\ Len(raw.q.v) >= 1
          /\ \/ raw.limit.t = "undefined"
             \/ /\ raw.limit.t = "number"
                /\ raw.limit.v >= SearchLimitMin /\ raw.limit.v <= SearchLimitMax,
   args |-> [q |-> raw.q.v,
             limit |-> IF raw.limit.t = "number" THEN raw.limit.v
                       ELSE SearchLimitDefault]]

\* new URLSearchParams({ q, limit: String(limit) })
search_assets_request(args, base) ==
  Get(base \o <<"/search", "?">>
        \o SerializeParams(<<<<"q", args.q>>, <<"limit", NumberToString(args.limit)>>>>))

search_assets_shape(args, res) ==
  IF res.kind = "rejected" THEN Threw(FALSE)
  ELSE IF ~ResOk(res) THEN Returned(Str(FailedText("/search", res.status)), FALSE)
  ELSE IF res.body.json.t = "invalid" THEN Threw(TRUE)
  ELSE Returned(JSONStringify(ItemsOf(res.body.json), 2), TRUE)

search_assets(i, pool) ==
  /\ CanCall(i, "search_assets")
  /\ \E raw \in pool :
       /\ search_assets_schema(raw).ok
       /\ LET args == search_assets_schema(raw).args
              base == HandlerBase("search_assets")
          IN Fetch(i, "search_assets", raw, args, base, search_assets_request(args, base))

\* -------------------------------------------------- ingest_from_finnhub

\* { tickers: z.array(z.string()).min(1).max(50) }
ingest_from_finnhub_schema(raw) ==
  [ok |-> /\ raw.tickers.t = "array"
          /\ \A k \in 1..Len(raw.tickers.v) : raw.tickers.v[k].t = "string"
          /\ Len(raw.tickers.v) >= MinTickers /\ Len(raw.tickers.v) <= MaxTickers,
   args |-> [tickers |-> [k \in 1..Len(raw.tickers.v) |-> raw.tickers.v[k].v]]]

\* t => t.trim().toUpperCase()
TrimUpper(t) == ToUpperCase(Trim(t))

RECURSIVE FilterBoolean(_)
\* .filter(Boolean) over strings: the empty string is the falsy one
FilterBoolean(ts) ==
  IF ts = <<>> THEN <<>>
  ELSE (IF Head(ts) = <<>> THEN <<>> ELSE <<Head(ts)>>) \o FilterBoolean(Tail(ts))

\* mutant: no Set, every value stays
ArrayFromSet_keepall(ts) == ts

RECURSIVE ArrayFromSet(_)
\* Array.from(new Set(ts)): a Set keeps the first insertion of each value
ArrayFromSet(ts) ==
  IF ts = <<>> THEN <<>>
  ELSE LET before == ArrayFromSet(SubSeq(ts, 1, Len(ts) - 1))
           last == ts[Len(ts)]
       IN IF \E k \in 1..Len(before) : before[k] = last THEN before
          ELSE Append(before, last)

\* Array.from(new Set(tickers.map(t => t.trim().toUpperCase()).filter(Boolean))).slice(0, 50)
Cleaned(tickers) ==
  Slice0(ArrayFromSet(FilterBoolean([k \in 1..Len(tickers) |-> TrimUpper(tickers[k])])),
         MaxTickers)

RECURSIVE JoinAmp(_)
\* cleaned.map(t => `tickers=${encodeURIComponent(t)}`).join("&")
JoinAmp(cleaned) ==
  IF cleaned = <<>> THEN <<>>
  ELSE <<"tickers", "=">> \o encodeURIComponent(Head(cleaned))
         \o (IF Len(cleaned) > 1 THEN <<"&">> ELSE <<>>)
         \o JoinAmp(Tail(cleaned))

ingest_from_finnhub_request(args, base) ==
  Get(base \o <<"/ingest/finnhub", "?">> \o JoinAmp(Cleaned(args.tickers)))

\* mutant: the empty list is sent like any other
NoValidTickers_never(cleaned) == FALSE

\* if (!cleaned.length) return ... before any fetch
NoValidTickers(cleaned) == Len(cleaned) = 0

ingest_from_finnhub_shape(args, res) ==
  IF res.kind = "rejected" THEN Threw(FALSE)
  ELSE IF ~ResOk(res)
    THEN Returned(Str(ExcerptText("/ingest/finnhub", res.status, ReadText(res.body))),
                  FALSE)
  ELSE IF res.body.json.t = "invalid" THEN Threw(TRUE)
  ELSE Returned(JSONStringify(res.body.json, 2), TRUE)

ingest_from_finnhub(i, pool) ==
  /\ CanCall(i, "ingest_from_finnhub")
  /\ \E raw \in pool :
       /\ ingest_from_finnhub_schema(raw).ok
       /\ LET args == ingest_from_finnhub_schema(raw).args
              base == HandlerBase("ingest_from_finnhub")
          IN IF NoValidTickers(Cleaned(args.tickers))
               THEN ReturnEarly(i, "ingest_from_finnhub", raw, args, base,
                                Str(<<"No valid tickers provided.">>))
               ELSE Fetch(i, "ingest_from_finnhub", raw, args, base,
                          ingest_from_finnhub_request(args, base))

\* ----------------------------------------------------- run_fundamentals

run_fundamentals_request(args, base) ==
  Get(base \o <<"/analyze/fundamentals", "?", "ticker", "=">>
        \o encodeURIComponent(args.ticker))

run_fundamentals_shape(args, res) ==
  IF res.kind = "rejected" THEN Threw(FALSE)
  ELSE IF ~ResOk(res)
    THEN Returned(Str(ExcerptText("/analyze/fundamentals", res.status,
                                  ReadText(res.body))), FALSE)
  ELSE IF res.body.json.t = "invalid" THEN Threw(TRUE)
  ELSE Returned(JSONStringify(res.body.json, 2), TRUE)

run_fundamentals(i, pool) ==
  /\ CanCall(i, "run_fundamentals")
  /\ \E raw \in pool :
       /\ ticker_schema(raw).ok
       /\ LET args == ticker_schema(raw).args
              base == HandlerBase("run_fundamentals")
          IN Fetch(i, "run_fundamentals", raw, args, base, run_fundamentals_request(args, base))

\* ------------------------------------------------- the fetch settles

\* the rest of the handler of that tool, from the settled fetch to its end
Shape(tool, args, res) ==
  CASE tool = "list_universe" -> list_universe_shape(args, res)
    [] tool = "explain_universe" -> explain_universe_shape(args, res)
    [] tool = "get_asset_details" -> get_asset_details_shape(args, res)
    [] tool = "search_assets" -> search_assets_shape(args, res)
    [] tool = "ingest_from_finnhub" -> ingest_from_finnhub_shape(args, res)
    [] tool = "run_fundamentals" -> run_fundamentals_shape(args, res)

\* mutant: `res` is shared by the handlers, and holds what was assigned last
OwnResponse_shared(i, res) ==
  IF \E j \in Slots \ {i} : calls[j].pc = "returned"
    THEN calls[CHOOSE j \in Slots \ {i} : calls[j].pc = "returned"].response
    ELSE res

\* the response the resumed handler of invocation i works on: its own `res`
OwnResponse(i, res) == res

\* the awaited fetch of invocation i settles with res and the handler runs on;
\* fetch() rejects a URL that is not absolute, so only one that starts with an
\* origin gets a response
FetchSettles(i, pool) ==
  /\ calls[i].pc = "awaiting"
  /\ \E res \in pool :
       /\ res.kind = "response" => IsAbsoluteUrl(calls[i].request.url)
       /\ LET out == Shape(calls[i].tool, calls[i].args, OwnResponse(i, res))
          IN calls' = [calls EXCEPT ![i].pc = out.pc, ![i].response = res,
                                    ![i].jsonParsed = out.jsonParsed,
                                    ![i].reply = out.reply]
  /\ UNCHANGED <<env, phase, initEnv, apiBase, tools>>

\* ------------------------------------------------------- callers' inputs

ConfigErrorArgs == {NoArgs, Obj(<<<<"verbose", Num(1)>>>>)}

SectorPool ==
  {Undefined, Str(<<>>), Str(<<" ">>), Str(<<" ", "T", "e", "c", "h", " ">>),
   Str(<<"T", "&", "x">>), Str(<<"a", " ", "b">>)}
UniverseLimitPool ==
  {Undefined, Num(UniverseLimitMin - 1), Num(UniverseLimitMin), Num(UniverseLimitDefault),
   Num(UniverseLimitMax), Num(UniverseLimitMax + 1)}
ListUniverseArgs == [sector : SectorPool, limit : UniverseLimitPool]

ExplainArgs ==
  [risk : {Undefined, Num(RiskMin), Num(RiskMax), Num(RiskMax + 1)},
   universe : {Undefined, Arr(<<>>), Arr(<<Str(<<"A">>), Str(<<"B">>)>>)}]

TickerArgs ==
  [ticker : {Str(<<>>), Str(<<"A">>), Str(<<"a", "/", "b">>), Str(<<"x", " ">>)}]

SearchArgs ==
  [q : {Str(<<>>), Str(<<"a">>), Str(<<"a", "&", "b">>)},
   limit : {Undefined, Num(SearchLimitMin), Num(SearchLimitMax), Num(SearchLimitMax + 1)}]

IngestArgs ==
  [tickers : {Arr(<<>>),
              Arr(<<Str(<<" ", "\t", " ">>), Str(<<>>)>>),
              Arr(<<Str(<<"b", "&", "x">>)>>),
              Arr(<<Str(<<"a", "a", "p", "l">>), Str(<<"A", "A", "P", "L">>),
                    Str(<<" ", "m", "s", "f", "t", " ">>)>>)}]

JsonPool ==
  {Null, Num(7), Obj(<<>>),
   Obj(<<<<"items", Arr(<<Num(1), Str(<<"A">>)>>)>>>>),
   Obj(<<<<"items", Str(<<"x">>)>>>>),
   Obj(<<<<"rationale", Str(<<"o", "k">>)>>>>),
   Obj(<<<<"rationale", Num(5)>>>>),
   Obj(<<<<"item", Obj(<<<<"ticker", Str(<<"A">>)>>>>)>>>>)}

ErrorBodies ==
  {TextBody(0), TextBody(ExcerptLen - 1), TextBody(ExcerptLen), TextBody(ExcerptLen + 1),
   JsonBody(Obj(<<<<"detail", Str(<<"x">>)>>>>)), BrokenBody}

ResponsePool ==
  {NetworkFailure}
    \cup {HttpResponse(200, b) : b \in {JsonBody(x) : x \in JsonPool}
                                         \cup {TextBody(0), TextBody(3), BrokenBody}}
    \cup {HttpResponse(st, b) : st \in {404, 500}, b \in ErrorBodies}
    \cup {HttpResponse(299, JsonBody(Obj(<<>>))), HttpResponse(300, TextBody(3)),
          HttpResponse(199, TextBody(3))}

\* ------------------------------------------------------- specifications

\* one session, one invocation, the callers' and the backend's full pools
Next ==
  \/ MCPInit
  \/ \E e \in EnvChangePool : EnvChange(e)
  \/ config_error(1, ConfigErrorArgs)
  \/ list_universe(1, ListUniverseArgs)
  \/ explain_universe(1, ExplainArgs)
  \/ get_asset_details(1, TickerArgs)
  \/ search_assets(1, SearchArgs)
  \/ ingest_from_finnhub(1, IngestArgs)
  \/ run_fundamentals(1, TickerArgs)
  \/ FetchSettles(1, ResponsePool)

Spec == Init /\ [][Next]_vars

\* several invocations in flight at once, over small pools
ConcEnvPool == {Undefined, Str(<<"https://a", "/">>)}
ConcEnvChangePool == {Str(<<"https://b">>)}
ConcListUniverseArgs == [sector : {Undefined}, limit : {Undefined}]
ConcExplainArgs == [risk : {Undefined}, universe : {Undefined}]
ConcIngestArgs ==
  [tickers : {Arr(<<Str(<<" ">>)>>), Arr(<<Str(<<"a">>), Str(<<"A">>)>>)}]
ConcResponsePool ==
  {NetworkFailure, HttpResponse(500, TextBody(3)),
   HttpResponse(200, JsonBody(Obj(<<<<"items", Arr(<<Num(1)>>)>>,
                                    <<"rationale", Str(<<"o", "k">>)>>>>)))}

\* the callers of ingest_from_finnhub alone, over every list of the pool
TickerPool ==
  {Str(<<>>), Str(<<" ", "\t", " ">>), Str(<<"a", "a", "p", "l">>),
   Str(<<"A", "A", "P", "L">>), Str(<<" ", "m", "s", "f", "t", " ">>),
   Str(<<"b", "&", "x">>)}
RECURSIVE Lists(_, _)
\* the sequences over pool of length 0..n
Lists(pool, n) ==
  IF n = 0 THEN {<<>>}
  ELSE LET shorter == Lists(pool, n - 1)
       IN shorter \cup {Append(l, x) : l \in shorter, x \in pool}
AllIngestArgs == [tickers : {Arr(l) : l \in Lists(TickerPool, MaxList)}]
IngestResponsePool ==
  {NetworkFailure, HttpResponse(500, TextBody(ExcerptLen + 1)),
   HttpResponse(200, JsonBody(Obj(<<<<"ingested", Num(1)>>>>)))}

InitIngest == InitFrom({Str(<<"https://a", "/">>)})

NextIngest ==
  \/ MCPInit
  \/ ingest_from_finnhub(1, AllIngestArgs)
  \/ FetchSettles(1, IngestResponsePool)

SpecIngest == InitIngest /\ [][NextIngest]_vars

InitConc == InitFrom(ConcEnvPool)

NextConc ==
  \/ MCPInit
  \/ \E e \in ConcEnvChangePool : EnvChange(e)
  \/ \E i \in Slots : config_error(i, ConfigErrorArgs)
  \/ \E i \in Slots : list_universe(i, ConcListUniverseArgs)
  \/ \E i \in Slots : explain_universe(i, ConcExplainArgs)
  \/ \E i \in Slots : ingest_from_finnhub(i, ConcIngestArgs)
  \/ \E i \in Slots : FetchSettles(i, ConcResponsePool)

SpecConc == InitConc /\ [][NextConc]_vars

\* =================================================== properties

Done(i) == calls[i].pc \in {"returned", "threw"}
Started(i) == calls[i].pc # "idle"
\* the invocation got an HTTP response with a status outside 200..299
GotFailureStatus(i) ==
  /\ Done(i)
  /\ calls[i].response.kind = "response"
  /\ ~(calls[i].response.status \in 200..299)

ReplyText(i) == calls[i].reply.content[1].text

IsPrefix(p, s) == Len(p) <= Len(s) /\ SubSeq(s, 1, Len(p)) = p
HasSubSeq(s, sub) ==
  \E k \in 0..(Len(s) - Len(sub)) : SubSeq(s, k + 1, k + Len(sub)) = sub

\* the decimal numerals of the status codes and limits the pools hold
Numeral(n) ==
  CASE n = 1 -> <<"1">> [] n = 10 -> <<"1", "0">> [] n = 100 -> <<"1", "0", "0">>
    [] n = 500 -> <<"5", "0", "0">> [] n = 404 -> <<"4", "0", "4">>
    [] n = 300 -> <<"3", "0", "0">> [] n = 199 -> <<"1", "9", "9">>

\* the path of the request invocation i sent: the token after its base address
RequestPath(i) == calls[i].request.url[Len(calls[i].base) + 1]

RECURSIVE SplitOn(_, _)
\* the pieces of s between the occurrences of the token sep
SplitOn(s, sep) ==
  IF \E k \in 1..Len(s) : s[k] = sep
    THEN LET k == CHOOSE k \in 1..Len(s) : s[k] = sep /\ \A j \in 1..(k - 1) : s[j] # sep
         IN <<SubSeq(s, 1, k - 1)>> \o SplitOn(SubSeq(s, k + 1, Len(s)), sep)
    ELSE <<s>>

CharOfHex(h) ==
  CASE h = <<"2", "0">> -> " " [] h = <<"0", "9">> -> "\t" [] h = <<"2", "6">> -> "&"
    [] h = <<"3", "D">> -> "=" [] h = <<"2", "F">> -> "/" [] h = <<"3", "F">> -> "?"
    [] h = <<"2", "B">> -> "+" [] h = <<"2", "5">> -> "%"

RECURSIVE UrlDecode(_, _)
\* what the receiving server reads from an encoded query value or path segment
\* (plus is a space only in a form-encoded query)
UrlDecode(s, plusIsSpace) ==
  IF s = <<>> THEN <<>>
  ELSE IF Head(s) = "%" /\ Len(s) >= 3
    THEN <<CharOfHex(SubSeq(s, 2, 3))>> \o UrlDecode(SubSeq(s, 4, Len(s)), plusIsSpace)
  ELSE IF Head(s) = "+" /\ plusIsSpace THEN <<" ">> \o UrlDecode(Tail(s), plusIsSpace)
  ELSE <<Head(s)>> \o UrlDecode(Tail(s), plusIsSpace)

\* the query string of a URL: what follows its first "?"
QueryString(url) ==
  IF \E k \in 1..Len(url) : url[k] = "?"
    THEN SubSeq(url, 1 + (CHOOSE k \in 1..Len(url) :
                            url[k] = "?" /\ \A j \in 1..(k - 1) : url[j] # "?"), Len(url))
    ELSE <<>>

\* the <<name, decoded value>> entries (a name is a string too) of a query string, as a server splits it
QueryEntries(qs, plusIsSpace) ==
  IF qs = <<>> THEN <<>>
  ELSE LET parts == SplitOn(qs, "&")
       IN [k \in 1..Len(parts) |->
            LET kv == SplitOn(parts[k], "=")
            IN <<kv[1], UrlDecode(SubSeq(parts[k], Len(kv[1]) + 2, Len(parts[k])),
                                  plusIsSpace)>>]

RECURSIVE SumRequests(_)
SumRequests(n) == IF n = 0 THEN 0 ELSE calls[n].nreq + SumRequests(n - 1)
\* the outbound requests of the session so far
TotalRequests == SumRequests(MaxCalls)

\* the reference cleaning of C6: the distinct non-empty trim-then-uppercase
\* values in first-occurrence order, cut to 50
RefNorm(tickers, k) == ToUpperCase(Trim(tickers[k]))
RefKept(tickers) ==
  {k \in 1..Len(tickers) :
     /\ RefNorm(tickers, k) # <<>>
     /\ \A j \in 1..(k - 1) : RefNorm(tickers, j) # RefNorm(tickers, k)}
RefClean(tickers) ==
  [r \in 1..Min(Cardinality(RefKept(tickers)), MaxTickers) |->
     RefNorm(tickers, CHOOSE k \in RefKept(tickers) :
                        Cardinality({j \in RefKept(tickers) : j <= k}) = r)]

RawTickers(i) == [k \in 1..Len(calls[i].raw.tickers.v) |-> calls[i].raw.tickers.v[k].v]

\* C1: an invocation issues at most one request; one that returned issued
\* exactly one, except ingest_from_finnhub with an empty cleaned list and
\* config_error, which issued none; a degraded session never issues any.
C1_OneRequestPerInvocation ==
  /\ \A i \in Slots :
       /\ calls[i].nreq <= 1
       /\ calls[i].pc = "returned" =>
            calls[i].nreq =
              (IF \/ calls[i].tool = "config_error"
                  \/ /\ calls[i].tool = "ingest_from_finnhub"
                     /\ RefClean(RawTickers(i)) = <<>>
                 THEN 0 ELSE 1)
       /\ (calls[i].nreq = 1) <=> (calls[i].request # NoRequest)
  /\ (phase = "ready" /\ tools = {"config_error"}) => TotalRequests = 0

C1_Witness ==
  \E i \in Slots :
    /\ calls[i].pc = "returned"
    /\ calls[i].tool = "run_fundamentals"
    /\ calls[i].response.status = 200
    /\ calls[i].nreq = 1

\* "empty or whitespace-only" configured value (unset counts as empty)
IsBlank(e) == e.t = "undefined" \/ (e.t = "string" /\ Trim(e.v) = <<>>)
\* unset, empty, or made of "/" only
OnlySlashes(e) ==
  e.t = "undefined" \/ (e.t = "string" /\ \A k \in 1..Len(e.v) : e.v[k] = "/")

ConfigErrorAlone ==
  /\ tools = {"config_error"}
  /\ \A i \in Slots :
       Started(i) =>
         /\ calls[i].tool = "config_error"
         /\ calls[i].pc = "returned"
         /\ calls[i].reply = TextReply(ConfigErrorText)

\* C2 as stated: a session initialized with an empty or whitespace-only base
\* address registers config_error and no other tool, and config_error returns
\* the fixed message whatever the arguments.
C2_BlankBaseIsDegraded ==
  (phase = "ready" /\ IsBlank(initEnv)) => ConfigErrorAlone

\* C2 amended: a session initialized with a base address that is unset, empty
\* or made only of "/" registers config_error alone, which returns the fixed
\* message whatever the arguments; a base address of whitespace only is not
\* taken as missing and the six backend tools are registered.
C2_EmptyBaseIsDegraded ==
  phase = "ready" =>
    /\ OnlySlashes(initEnv) => ConfigErrorAlone
    /\ (IsBlank(initEnv) /\ ~OnlySlashes(initEnv)) => tools = SixTools

C2_Witness ==
  \E i \in Slots :
    /\ initEnv = Str(<<"/", "/">>)
    /\ calls[i].tool = "config_error"
    /\ calls[i].pc = "returned"
    /\ calls[i].raw # NoArgs
    /\ calls[i].reply = TextReply(ConfigErrorText)

\* C3: no failure path ends with an error leaving the handler: every finished
\* invocation returned a Reply of one text block, whether the backend answered
\* a failure status, the fetch failed, or the 2xx body was no JSON or null.
C3_EveryFailureReturnsReply ==
  \A i \in Slots :
    Done(i) =>
      /\ calls[i].pc = "returned"
      /\ Len(calls[i].reply.content) = 1
      /\ calls[i].reply.content[1].type = "text"

\* C4: every Reply a handler returns is exactly one content block of type
\* "text" whose payload is a string, whatever the backend answered.
C4_ReplyIsOneTextString ==
  \A i \in Slots :
    calls[i].pc = "returned" =>
      /\ Len(calls[i].reply.content) = 1
      /\ calls[i].reply.content[1].type = "text"
      /\ ReplyText(i).t = "string"

\* C5: on a non-2xx status each of the six tools returns normally a text that
\* holds the path it requested and the status code in decimal, without having
\* parsed the body as JSON; a 500 from /search gives "Backend /search failed: 500".
C5_FailureStatusText ==
  \A i \in Slots :
    GotFailureStatus(i) =>
      /\ calls[i].tool \in SixTools
      /\ calls[i].pc = "returned"
      /\ ~calls[i].jsonParsed
      /\ ReplyText(i).t = "string"
      /\ \E k \in 1..Len(ReplyText(i).v) : ReplyText(i).v[k] = RequestPath(i)
      /\ HasSubSeq(ReplyText(i).v, Numeral(calls[i].response.status))
      /\ (calls[i].tool = "search_assets" /\ calls[i].response.status = 500) =>
           ReplyText(i).v = <<"Backend ", "/search", " failed: ", "5", "0", "0">>

C5_Witness ==
  \E i \in Slots :
    /\ GotFailureStatus(i)
    /\ calls[i].tool = "search_assets"
    /\ calls[i].response.status = 500
    /\ calls[i].pc = "returned"

\* C6: ingest_from_finnhub does what the reference cleaning says: with an empty
\* cleaned list it returns "No valid tickers provided." and sends nothing;
\* otherwise its one GET to /ingest/finnhub carries one tickers= entry per
\* cleaned ticker, in order, without duplicates.
C6_IngestMatchesReference ==
  \A i \in Slots :
    (Started(i) /\ calls[i].tool = "ingest_from_finnhub") =>
      LET C == RefClean(RawTickers(i))
      IN IF C = <<>>
           THEN /\ calls[i].pc = "returned"
                /\ calls[i].reply = TextReply(Str(<<"No valid tickers provided.">>))
                /\ calls[i].nreq = 0
                /\ calls[i].request = NoRequest
           ELSE /\ calls[i].nreq = 1
                /\ calls[i].request.method = "GET"
                /\ RequestPath(i) = "/ingest/finnhub"
                /\ QueryEntries(QueryString(calls[i].request.url), FALSE)
                     = [r \in 1..Len(C) |-> <<<<"tickers">>, C[r]>>]

C6_Witness ==
  \E i \in Slots :
    /\ calls[i].tool = "ingest_from_finnhub"
    /\ calls[i].pc = "awaiting"
    /\ RawTickers(i) = << <<"a", "a", "p", "l">>, <<"A", "A", "P", "L">>,
                          <<" ", "m", "s", "f", "t", " ">> >>
    /\ QueryEntries(QueryString(calls[i].request.url), FALSE)
         = << <<<<"tickers">>, <<"A", "A", "P", "L">> >>,
              <<<<"tickers">>, <<"M", "S", "F", "T">> >> >>

C6_WitnessNoValid ==
  \E i \in Slots :
    /\ calls[i].tool = "ingest_from_finnhub"
    /\ calls[i].pc = "returned"
    /\ RawTickers(i) = << <<" ", "\t", " ">>, <<>> >>
    /\ calls[i].nreq = 0

\* what follows the ": " of a reply text: the body excerpt
Excerpt(text) ==
  SubSeq(text, 1 + (CHOOSE k \in 1..Len(text) : text[k] = ": "), Len(text))
BeforeExcerpt(text) ==
  SubSeq(text, 1, CHOOSE k \in 1..Len(text) : text[k] = ": ")

\* C7: for ingest_from_finnhub and run_fundamentals a non-2xx reply carries the
\* status code and the first min(200, length) characters of the response body:
\* 200 characters of a longer body, the whole of a shorter one, never more
\* (a body that cannot be read gives an empty excerpt).
C7_ExcerptIsFirst200 ==
  \A i \in Slots :
    (GotFailureStatus(i) /\ calls[i].tool \in {"ingest_from_finnhub", "run_fundamentals"}) =>
      LET body == calls[i].response.body
          text == ReplyText(i).v
      IN /\ calls[i].pc = "returned"
         /\ ReplyText(i).t = "string"
         /\ \E k \in 1..Len(text) : text[k] = ": "
         /\ HasSubSeq(BeforeExcerpt(text), Numeral(calls[i].response.status))
         /\ Len(Excerpt(text)) <= 200
         /\ body.readable =>
              /\ Len(Excerpt(text)) = (IF Len(body.raw) > 200 THEN 200 ELSE Len(body.raw))
              /\ \A k \in 1..Len(Excerpt(text)) : Excerpt(text)[k] = body.raw[k]
         /\ ~body.readable => Excerpt(text) = <<>>

C7_Witness ==
  \E i \in Slots :
    /\ GotFailureStatus(i)
    /\ calls[i].tool = "run_fundamentals"
    /\ calls[i].response.status = 404
    /\ Len(calls[i].response.body.raw) > 200
    /\ Len(Excerpt(ReplyText(i).v)) = 200

RECURSIVE NumeralValue(_)
\* the number a decimal numeral denotes
NumeralValue(ds) ==
  IF ds = <<>> THEN 0
  ELSE 10 * NumeralValue(SubSeq(ds, 1, Len(ds) - 1))
         + (CHOOSE d \in 0..9 : Digit(d) = ds[Len(ds)])

\* C8: list_universe sends a GET to /universe whose query always holds limit,
\* the validated or defaulted value, and holds sector exactly when a sector
\* was given that is not blank after trimming, with the trimmed sector as its
\* value; limit 100 and no sector give exactly limit=100.
C8_ListUniverseQuery ==
  \A i \in Slots :
    (Started(i) /\ calls[i].tool = "list_universe") =>
      LET raw == calls[i].raw
          qs == QueryString(calls[i].request.url)
          entries == QueryEntries(qs, TRUE)
          limit == IF raw.limit.t = "undefined" THEN 100 ELSE raw.limit.v
          hasSector == raw.sector.t = "string" /\ Trim(raw.sector.v) # <<>>
      IN /\ calls[i].request.method = "GET"
         /\ RequestPath(i) = "/universe"
         /\ Len(entries) = (IF hasSector THEN 2 ELSE 1)
         /\ entries[1][1] = <<"limit">>
         /\ NumeralValue(entries[1][2]) = limit
         /\ hasSector => entries[2] = <<<<"sector">>, Trim(raw.sector.v)>>
         /\ (limit = 100 /\ ~hasSector) => qs = <<"limit", "=", "1", "0", "0">>
         /\ raw.sector = Str(<<" ", "T", "e", "c", "h", " ">>) =>
              SplitOn(qs, "&")[2] = <<"sector", "=", "T", "e", "c", "h">>

C8_Witness ==
  \E i \in Slots :
    /\ calls[i].tool = "list_universe"
    /\ Started(i)
    /\ calls[i].raw.sector = Str(<<" ", "T", "e", "c", "h", " ">>)
    /\ calls[i].raw.limit = Undefined
    /\ QueryString(calls[i].request.url)
         = <<"limit", "=", "1", "0", "0", "&", "sector", "=", "T", "e", "c", "h">>

\* two invocations given the same tool, arguments and base address
SameCall(i, j) ==
  /\ calls[i].tool = calls[j].tool
  /\ calls[i].args = calls[j].args
  /\ calls[i].base = calls[j].base

\* requests and replies are functions of the invocation's own inputs
OwnInputsDecide ==
  \A i, j \in Slots :
    (Started(i) /\ Started(j) /\ SameCall(i, j)) =>
      /\ calls[i].request = calls[j].request
      /\ calls[i].nreq = calls[j].nreq
      /\ (Done(i) /\ calls[i].nreq = 1) =>
           (calls[i].jsonParsed <=>
              (calls[i].response.kind = "response"
                 /\ calls[i].response.status \in 200..299))
      /\ (Done(i) /\ Done(j) /\ calls[i].nreq = 1
            /\ calls[i].response = calls[j].response) =>
           (calls[i].pc = calls[j].pc /\ calls[i].reply = calls[j].reply)

C10_RequestsUseInitBase ==
  \A i \in Slots :
    calls[i].request # NoRequest =>
      /\ apiBase # <<>>
      /\ IsPrefix(apiBase, calls[i].request.url)

====
